---- MODULE Spec2Model ----
(***************************************************************************)
(* Data-quality gate of the customer-360 platform:                         *)
(*   data_quality/validators/data_checks.py     (DataQualityChecker)       *)
(*   data_quality/validators/quality_reporter.py (QualityReporter)         *)
(*                                                                         *)
(* Conventions.                                                            *)
(*  - A table (pandas DataFrame) is [columns, rows]: the set of column     *)
(*    names and the sequence of rows, each row a function column -> cell.  *)
(*  - A cell is [kind, v]: kind "null" (None/NaN/NaT), "num" (a number, or *)
(*    a parseable timestamp in whole hours) or "str" (a string that is     *)
(*    neither a number nor a timestamp).                                   *)
(*  - Percentages are exact fractions [num, den]; thresholds are whole     *)
(*    numbers of percent / rows / hours.  round(x, 2) is kept in           *)
(*    hundredths.  Binary floating-point rounding of n / len * 100 is not  *)
(*    modelled.                                                            *)
(*  - A Python dict is a function on strings (a record); {**a, **b} is     *)
(*    Merge(a, b).                                                         *)
(***************************************************************************)
EXTENDS Integers, Sequences, FiniteSets, TLC

VARIABLES
    thresholds,   \* self.thresholds of the checker
    results,      \* self.results of the checker
    clock,        \* datetime.now(timezone.utc), in whole hours
    df,           \* the table the run's checks are given
    schemas,      \* self._validators of the schema validator: entity -> schema
    puts,         \* the put_object calls the reporter made on its bucket, in order,
                  \* each with the save that made it and whether the store accepted it
    peer,         \* a second checker instance: [thresholds, results]
    held,         \* the summary get_summary last returned, as its caller holds it
    call,         \* the last operation invoked and its arguments
    ret           \* what that operation returned (or raised)

vars == <<thresholds, results, clock, df, schemas, puts, peer, held, call, ret>>

----------------------------------------------------------------------------
(* Bounds of the model *)

MaxResults == 2
MaxClock == 1
MaxRowsSmall == 2
MaxPuts == 2
MaxHour == 25

----------------------------------------------------------------------------
(* Values *)

Null == [kind |-> "null", v |-> 0]
Num(n) == [kind |-> "num", v |-> n]
Str(n) == [kind |-> "str", v |-> n]

isnull(c) == c.kind = "null"

Merge(a, b) ==
    [k \in (DOMAIN a) \cup (DOMAIN b) |-> IF k \in DOMAIN b THEN b[k] ELSE a[k]]

\* len(df)
len(t) == Len(t.rows)

\* The tables with the given columns, at most n rows and cells from the given set
Tables(cols, cells, n) ==
    UNION {[columns : {cols}, rows : [1..k -> [cols -> cells]]] : k \in 0..n}

\* x = n / d as an exact fraction; the code's  "(count / len) * 100 if len > 0 else 0"
Pct(count, total) ==
    IF total > 0 THEN [num |-> count * 100, den |-> total] ELSE [num |-> 0, den |-> 1]

\* pct > t for a fraction and a whole number
PctGT(p, t) == p.num > t * p.den

\* round(pct, 2), in hundredths (round half to even)
Round2(p) ==
    LET q == (p.num * 100) \div p.den
        r == (p.num * 100) % p.den
    IN  IF 2 * r > p.den THEN q + 1
        ELSE IF 2 * r = p.den THEN q + (q % 2)
        ELSE q

----------------------------------------------------------------------------
(* DataQualityChecker *)

DefaultNullPercentageMax == 5
DefaultDuplicatePercentageMax == 1
DefaultMinRowCount == 100
DefaultFreshnessHoursMax == 6

DefaultThresholds ==
    [null_percentage_max |-> DefaultNullPercentageMax,
     duplicate_percentage_max |-> DefaultDuplicatePercentageMax,
     min_row_count |-> DefaultMinRowCount,
     freshness_hours_max |-> DefaultFreshnessHoursMax]

\* The constructor's argument: <<>> is None, <<t>> is the dict t
NoThresholds == <<>>

\* DataQualityChecker_init whose default dict has no minimum row count
DataQualityChecker_init_no_min_rows(arg) ==
    IF arg = <<>> THEN [DefaultThresholds EXCEPT !.min_row_count = 0] ELSE arg[1]

\* __init__: self.thresholds = thresholds or {defaults}
DataQualityChecker_init(arg) ==
    IF arg = NoThresholds THEN DefaultThresholds ELSE arg[1]

\* A checker instance right after __init__: its thresholds and its own empty list
NewChecker(arg) == [thresholds |-> DataQualityChecker_init(arg), results |-> <<>>]

\* _add_result storing PASS whatever status it is given
_add_result_always_pass(rs, check_name, status, now, details) ==
    Append(rs, Merge([check_name |-> check_name, status |-> "PASS", timestamp |-> now], details))

\* _add_result putting the new entry first instead of last
_add_result_prepends(rs, check_name, status, now, details) ==
    <<Merge([check_name |-> check_name, status |-> status, timestamp |-> now], details)>> \o rs

\* _add_result: the list after the append.  The details' keys are spread last and
\* so override check_name, status and timestamp when they carry the same key.
_add_result(rs, check_name, status, now, details) ==
    Append(rs, Merge([check_name |-> check_name, status |-> status, timestamp |-> now],
                     details))

\* ---- check_nulls -------------------------------------------------------

\* df[col].isnull().sum()
NullCount(t, col) == Cardinality({i \in 1..len(t) : isnull(t.rows[i][col])})

\* NullsStep without the "if overall_status == PASS" guard of the WARN branch
NullsStepWarnOverrides(t, th, col, acc) ==
    IF col \notin t.columns
    THEN [status |-> "FAIL",
          report |-> Merge(acc.report,
                           (col :> [status |-> "FAIL", reason |-> "Column missing"]))]
    ELSE LET null_count == Cardinality({i \in 1..Len(t.rows) : t.rows[i][col].kind = "null"})
             null_pct == Pct(null_count, Len(t.rows))
             status == IF PctGT(null_pct, th.null_percentage_max) THEN "FAIL"
                       ELSE IF PctGT(null_pct, 0) THEN "WARN"
                       ELSE "PASS"
         IN  [status |-> IF status = "PASS" THEN acc.status ELSE status,
              report |-> Merge(acc.report,
                               (col :> [null_count |-> null_count,
                                        null_percentage |-> Round2(null_pct),
                                        threshold |-> th.null_percentage_max,
                                        status |-> status]))]

\* One iteration of the loop over required_columns: acc is [status, report]
NullsStep(t, th, col, acc) ==
    IF col \notin t.columns
    THEN [status |-> "FAIL",
          report |-> Merge(acc.report,
                           (col :> [status |-> "FAIL", reason |-> "Column missing"]))]
    ELSE LET null_count == NullCount(t, col)
             null_pct == Pct(null_count, len(t))
             status == IF PctGT(null_pct, th.null_percentage_max) THEN "FAIL"
                       ELSE IF PctGT(null_pct, 0) THEN "WARN"
                       ELSE "PASS"
             overall == IF status = "FAIL" THEN "FAIL"
                        ELSE IF status = "WARN" /\ acc.status = "PASS" THEN "WARN"
                        ELSE acc.status
         IN  [status |-> overall,
              report |-> Merge(acc.report,
                               (col :> [null_count |-> null_count,
                                        null_percentage |-> Round2(null_pct),
                                        threshold |-> th.null_percentage_max,
                                        status |-> status]))]

RECURSIVE NullsLoop(_, _, _, _, _)
NullsLoop(t, th, cols, i, acc) ==
    IF i > Len(cols) THEN acc
    ELSE NullsLoop(t, th, cols, i + 1, NullsStep(t, th, cols[i], acc))

\* The empty dict
EmptyDict == [k \in {} |-> 0]

\* check_nulls as a function of its inputs: [status, report]
NullsResult(t, th, required_columns) ==
    NullsLoop(t, th, required_columns, 1, [status |-> "PASS", report |-> EmptyDict])

check_nulls(required_columns) ==
    /\ Len(results) < MaxResults
    /\ LET r == NullsResult(df, thresholds, required_columns)
       IN  /\ results' = _add_result(results, "null_check", r.status, clock,
                             [columns_checked |-> Len(required_columns),
                              column_results |-> r.report])
           /\ ret' = [status |-> r.status, details |-> r.report]
    /\ call' = [op |-> "check_nulls", required_columns |-> required_columns]
    /\ UNCHANGED <<thresholds, clock, df, schemas, puts, peer, held>>

\* ---- check_duplicates --------------------------------------------------

\* A row's values on the key columns
KeyOf(t, key_columns, i) == [j \in 1..Len(key_columns) |-> t.rows[i][key_columns[j]]]

\* df.duplicated(..., keep=False): every occurrence of a repeated key is flagged
duplicatedKeepNone(t, key_columns) ==
    {i \in 1..Len(t.rows) :
        \E j \in (1..Len(t.rows)) \ {i} :
            KeyOf(t, key_columns, j) = KeyOf(t, key_columns, i)}

\* df.duplicated(subset=key_columns, keep="first"): the flagged row indices
duplicated(t, key_columns) ==
    {i \in 1..len(t) :
        \E j \in 1..(i - 1) : KeyOf(t, key_columns, j) = KeyOf(t, key_columns, i)}

\* The elements of a set of indices in increasing order
RECURSIVE SortedSeq(_)
SortedSeq(S) ==
    IF S = {} THEN <<>>
    ELSE LET m == CHOOSE x \in S : \A y \in S : x <= y
         IN  <<m>> \o SortedSeq(S \ {m})

\* seq.head(n)
head(s, n) == SubSeq(s, 1, IF Len(s) < n THEN Len(s) ELSE n)

DupSampleSize == 5

\* DupStatus with >= in place of > at the threshold
DupStatusInclusive(dup_pct, th) ==
    IF dup_pct.num >= th.duplicate_percentage_max * dup_pct.den THEN "FAIL"
    ELSE IF PctGT(dup_pct, 0) THEN "WARN"
    ELSE "PASS"

\* The status rule of check_duplicates
DupStatus(dup_pct, th) ==
    IF PctGT(dup_pct, th.duplicate_percentage_max) THEN "FAIL"
    ELSE IF PctGT(dup_pct, 0) THEN "WARN"
    ELSE "PASS"

\* df[duplicates].head(5)[key_columns].to_dict("records")
DupSamples(t, key_columns, dups) ==
    LET idx == head(SortedSeq(dups), DupSampleSize)
    IN  [n \in 1..Len(idx) |-> KeyOf(t, key_columns, idx[n])]

\* check_duplicates as a function of its inputs: [status, details]
DuplicatesResult(t, th, key_columns) ==
    LET total == len(t)
        dups == duplicated(t, key_columns)
        dup_count == Cardinality(dups)
        dup_pct == Pct(dup_count, total)
        base == [total_records |-> total,
                 duplicate_count |-> dup_count,
                 duplicate_percentage |-> Round2(dup_pct),
                 threshold |-> th.duplicate_percentage_max,
                 key_columns |-> key_columns]
    IN  [status |-> DupStatus(dup_pct, th),
         details |-> IF dup_count > 0
                     THEN Merge(base, [sample_duplicates |-> DupSamples(t, key_columns, dups)])
                     ELSE base]

\* A key column absent from the table makes df.duplicated raise KeyError before
\* anything is recorded.
check_duplicates(key_columns) ==
    /\ Len(results) < MaxResults
    /\ IF \E j \in 1..Len(key_columns) : key_columns[j] \notin df.columns
       THEN /\ ret' = [raised |-> "KeyError"]
            /\ UNCHANGED results
       ELSE LET r == DuplicatesResult(df, thresholds, key_columns)
            IN  /\ results' = _add_result(results, "duplicate_check", r.status, clock,
                                          r.details)
                /\ ret' = r
    /\ call' = [op |-> "check_duplicates", key_columns |-> key_columns]
    /\ UNCHANGED <<thresholds, clock, df, schemas, puts, peer, held>>

\* ---- check_ranges ------------------------------------------------------

NaN == [kind |-> "nan", v |-> 0]

\* The non-null numbers of a column
Numbers(t, col) == {t.rows[i][col].v : i \in {j \in 1..len(t) : t.rows[j][col].kind = "num"}}

\* float(df[col].min()) if not df[col].empty else None  (NaN for an all-null column)
ActualMin(t, col) ==
    IF len(t) = 0 THEN Null
    ELSE IF Numbers(t, col) = {} THEN NaN
    ELSE Num(CHOOSE x \in Numbers(t, col) : \A y \in Numbers(t, col) : x <= y)

ActualMax(t, col) ==
    IF len(t) = 0 THEN Null
    ELSE IF Numbers(t, col) = {} THEN NaN
    ELSE Num(CHOOSE x \in Numbers(t, col) : \A y \in Numbers(t, col) : x >= y)

\* The rows of a column that violate the rules: a comparison with NaN is False
Violations(t, col, rules) ==
    {i \in 1..len(t) :
        /\ t.rows[i][col].kind = "num"
        /\ \/ "min" \in DOMAIN rules /\ t.rows[i][col].v < rules["min"]
           \/ "max" \in DOMAIN rules /\ t.rows[i][col].v > rules["max"]}

\* RangesStep with "overall_status = status": the last column decides alone
RangesStepLastWins(t, col, rules, acc) ==
    IF col \notin t.columns
    THEN [status |-> "FAIL",
          report |-> Merge(acc.report,
                           (col :> [status |-> "FAIL", reason |-> "Column missing"]))]
    ELSE LET violation_count == Cardinality(Violations(t, col, rules))
             status == IF violation_count > 0 THEN "FAIL" ELSE "PASS"
         IN  [status |-> status,
              report |-> Merge(acc.report,
                               (col :> [expected_range |-> rules,
                                        violations |-> violation_count,
                                        violation_percentage |->
                                            Round2(Pct(violation_count, Len(t.rows))),
                                        actual_min |-> ActualMin(t, col),
                                        actual_max |-> ActualMax(t, col),
                                        status |-> status]))]

\* One iteration of the loop over range_rules.items(): acc is [status, report]
RangesStep(t, col, rules, acc) ==
    IF col \notin t.columns
    THEN [status |-> "FAIL",
          report |-> Merge(acc.report,
                           (col :> [status |-> "FAIL", reason |-> "Column missing"]))]
    ELSE LET violation_count == Cardinality(Violations(t, col, rules))
             violation_pct == Pct(violation_count, len(t))
             status == IF violation_count > 0 THEN "FAIL" ELSE "PASS"
         IN  [status |-> IF status = "FAIL" THEN "FAIL" ELSE acc.status,
              report |-> Merge(acc.report,
                               (col :> [expected_range |-> rules,
                                        violations |-> violation_count,
                                        violation_percentage |-> Round2(violation_pct),
                                        actual_min |-> ActualMin(t, col),
                                        actual_max |-> ActualMax(t, col),
                                        status |-> status]))]

\* range_rules is the dict's items in insertion order: a sequence of [col, rules]
RECURSIVE RangesLoop(_, _, _, _)
RangesLoop(t, range_rules, i, acc) ==
    IF i > Len(range_rules) THEN acc
    ELSE RangesLoop(t, range_rules, i + 1,
                    RangesStep(t, range_rules[i].col, range_rules[i].rules, acc))

RangesResult(t, range_rules) ==
    RangesLoop(t, range_rules, 1, [status |-> "PASS", report |-> EmptyDict])

\* A string met in a ruled column: the comparison (or min()/float()) raises
RangesRaises(t, range_rules) ==
    \E n \in 1..Len(range_rules) :
        /\ range_rules[n].col \in t.columns
        /\ \E i \in 1..len(t) : t.rows[i][range_rules[n].col].kind = "str"

check_ranges(range_rules) ==
    /\ Len(results) < MaxResults
    /\ IF RangesRaises(df, range_rules)
       THEN /\ ret' = [raised |-> "TypeError"]
            /\ UNCHANGED results
       ELSE LET r == RangesResult(df, range_rules)
            IN  /\ results' = _add_result(results, "range_check", r.status, clock,
                                  [columns_checked |-> Len(range_rules),
                                   column_results |-> r.report])
                /\ ret' = [status |-> r.status, details |-> r.report]
    /\ call' = [op |-> "check_ranges", range_rules |-> range_rules]
    /\ UNCHANGED <<thresholds, clock, df, schemas, puts, peer, held>>

\* ---- check_row_count ---------------------------------------------------

\* An optional argument: <<>> is None, <<n>> is the number n
None == <<>>
Some(n) == <<n>>

\* Python truth of an optional number: None and 0 are false
Truthy(x) == x # None /\ x[1] # 0

\* min_count = expected_min or self.thresholds.get("min_row_count", 0)
MinCount(th, expected_min) ==
    IF Truthy(expected_min) THEN expected_min[1] ELSE th.min_row_count

\* if actual_count < min_count
BelowMin(actual, min_count) == actual < min_count

\* if expected_max and actual_count > expected_max
AboveMax(actual, expected_max) == Truthy(expected_max) /\ actual > expected_max[1]

\* abs(x)
abs(x) == IF x < 0 THEN -x ELSE x

\* if previous_count and previous_count > 0:
\*     variance = abs(actual - previous) / previous * 100
\*     if variance > variance_threshold_pct
VarianceExceeded(actual, previous_count, variance_threshold_pct) ==
    /\ Truthy(previous_count)
    /\ previous_count[1] > 0
    /\ abs(actual - previous_count[1]) * 100 > variance_threshold_pct * previous_count[1]

\* RowCountSteps whose variance block sets WARN without looking at the status
RowCountStepsWarnOverrides(actual, min_count, expected_max, previous_count, variance_threshold_pct) ==
    LET below == BelowMin(actual, min_count)
        above == AboveMax(actual, expected_max)
        drift == VarianceExceeded(actual, previous_count, variance_threshold_pct)
    IN  [status |-> IF drift THEN "WARN" ELSE IF below \/ above THEN "FAIL" ELSE "PASS",
         issues |->
            (IF below THEN <<[kind |-> "below_minimum", count |-> actual,
                              limit |-> min_count]>> ELSE <<>>)
            \o (IF above THEN <<[kind |-> "above_maximum", count |-> actual,
                                 limit |-> expected_max[1]]>> ELSE <<>>)
            \o (IF drift THEN <<[kind |-> "variance", count |-> actual,
                                 limit |-> variance_threshold_pct]>> ELSE <<>>)]

\* The three "if" blocks in source order: [status, issues]
RowCountSteps(actual, min_count, expected_max, previous_count, variance_threshold_pct) ==
    LET s1 == IF BelowMin(actual, min_count)
              THEN [status |-> "FAIL",
                    issues |-> <<[kind |-> "below_minimum", count |-> actual,
                                  limit |-> min_count]>>]
              ELSE [status |-> "PASS", issues |-> <<>>]
        s2 == IF AboveMax(actual, expected_max)
              THEN [status |-> "FAIL",
                    issues |-> Append(s1.issues,
                                      [kind |-> "above_maximum", count |-> actual,
                                       limit |-> expected_max[1]])]
              ELSE s1
        s3 == IF VarianceExceeded(actual, previous_count, variance_threshold_pct)
              THEN [status |-> IF s2.status = "PASS" THEN "WARN" ELSE s2.status,
                    issues |-> Append(s2.issues,
                                      [kind |-> "variance", count |-> actual,
                                       limit |-> variance_threshold_pct])]
              ELSE s2
    IN  s3

\* check_row_count as a function of its inputs: [status, details]
RowCountResult(t, th, expected_min, expected_max, previous_count, variance_threshold_pct) ==
    LET actual_count == len(t)
        min_count == MinCount(th, expected_min)
        s == RowCountSteps(actual_count, min_count, expected_max, previous_count,
                           variance_threshold_pct)
    IN  [status |-> s.status,
         details |-> [actual_count |-> actual_count,
                      expected_min |-> min_count,
                      expected_max |-> expected_max,
                      previous_count |-> previous_count,
                      issues |-> s.issues]]

DefaultVarianceThresholdPct == 50

check_row_count(expected_min, expected_max, previous_count, variance_threshold_pct) ==
    /\ Len(results) < MaxResults
    /\ LET r == RowCountResult(df, thresholds, expected_min, expected_max,
                               previous_count, variance_threshold_pct)
       IN  /\ results' = _add_result(results, "row_count_check", r.status, clock, r.details)
           /\ ret' = r
    /\ call' = [op |-> "check_row_count", expected_min |-> expected_min,
                expected_max |-> expected_max, previous_count |-> previous_count,
                variance_threshold_pct |-> variance_threshold_pct]
    /\ UNCHANGED <<thresholds, clock, df, schemas, puts, peer, held>>

\* ---- check_freshness ---------------------------------------------------

\* pd.to_datetime(df[col]) raises on a value that is no timestamp
ParseRaises(t, col) == \E i \in 1..len(t) : t.rows[i][col].kind = "str"

\* timestamps.max(): the latest parsed timestamp, NaT (Null) when there is none
Latest(t, col) ==
    IF Numbers(t, col) = {} THEN Null
    ELSE Num(CHOOSE x \in Numbers(t, col) : \A y \in Numbers(t, col) : x >= y)

\* FreshnessTry with a FAIL tier for data older than twice the threshold
FreshnessTryFailTier(t, th, col, now) ==
    LET latest == Latest(t, col)
        hours_old == now - latest.v
        status == IF isnull(latest) THEN "FAIL"
                  ELSE IF hours_old > 2 * th.freshness_hours_max THEN "FAIL"
                  ELSE IF hours_old > th.freshness_hours_max THEN "WARN"
                  ELSE "PASS"
    IN  [status |-> status,
         details |-> [latest_timestamp |-> latest,
                      hours_since_latest |-> IF isnull(latest) \/ hours_old = 0
                                             THEN None ELSE Some(hours_old),
                      threshold_hours |-> th.freshness_hours_max]]

\* The body of the try block: [status, details]
FreshnessTry(t, th, col, now) ==
    LET latest == Latest(t, col)
        hours_old == now - latest.v
        status == IF isnull(latest) THEN "FAIL"
                  ELSE IF hours_old > th.freshness_hours_max THEN "WARN"
                  ELSE "PASS"
    IN  [status |-> status,
         details |-> [latest_timestamp |-> latest,
                      \* round(hours_old, 2) if hours_old else None
                      hours_since_latest |-> IF isnull(latest) \/ hours_old = 0
                                             THEN None ELSE Some(hours_old),
                      threshold_hours |-> th.freshness_hours_max]]

\* check_freshness past the missing-column return: [status, details]
FreshnessResult(t, th, col, now) ==
    IF ParseRaises(t, col)
    THEN [status |-> "FAIL", details |-> [error |-> "ParserError"]]
    ELSE FreshnessTry(t, th, col, now)

\* The dict built and returned when the column is missing
NotFound(col) == [status |-> "FAIL", reason |-> <<"not found", col>>]

check_freshness(timestamp_column) ==
    /\ Len(results) < MaxResults
    /\ IF timestamp_column \notin df.columns
       THEN /\ results' = _add_result(results, "freshness_check", "FAIL", clock,
                                      NotFound(timestamp_column))
            /\ ret' = NotFound(timestamp_column)
       ELSE LET r == FreshnessResult(df, thresholds, timestamp_column, clock)
            IN  /\ results' = _add_result(results, "freshness_check", r.status, clock,
                                          r.details)
                /\ ret' = r
    /\ call' = [op |-> "check_freshness", timestamp_column |-> timestamp_column,
                now |-> clock]
    /\ UNCHANGED <<thresholds, clock, df, schemas, puts, peer, held>>

\* ---- check_referential_integrity ---------------------------------------

OrphanSampleSize == 10

\* set(df[column].unique()), the nulls kept
ActualValuesWithNulls(t, col) == {t.rows[i][col] : i \in 1..Len(t.rows)}

\* set(df[column].dropna().unique())
ActualValues(t, col) == {t.rows[i][col] : i \in {j \in 1..len(t) : ~isnull(t.rows[j][col])}}

\* actual_values - reference_values
Orphaned(t, col, reference_values) == ActualValues(t, col) \ reference_values

\* list(orphaned)[:10]: a set lists its elements in no specified order, so the
\* sample is any OrphanSampleSize of them (all of them when there are fewer)
OrphanSamples(orphaned) ==
    {s \in SUBSET orphaned :
        Cardinality(s) = IF Cardinality(orphaned) < OrphanSampleSize
                         THEN Cardinality(orphaned) ELSE OrphanSampleSize}

\* check_referential_integrity past the missing-column return, for one listing
ReferentialResult(t, col, reference_values, sample) ==
    LET actual_values == ActualValues(t, col)
        orphaned == Orphaned(t, col, reference_values)
        orphan_count == Cardinality(orphaned)
    IN  [status |-> IF orphan_count > 0 THEN "FAIL" ELSE "PASS",
         details |-> [column |-> col,
                      total_unique_values |-> Cardinality(actual_values),
                      reference_set_size |-> Cardinality(reference_values),
                      orphaned_count |-> orphan_count,
                      sample_orphans |-> sample]]

check_referential_integrity(column, reference_values) ==
    /\ Len(results) < MaxResults
    /\ IF column \notin df.columns
       THEN /\ results' = _add_result(results, "referential_integrity", "FAIL", clock,
                                      NotFound(column))
            /\ ret' = NotFound(column)
       ELSE \E sample \in OrphanSamples(Orphaned(df, column, reference_values)) :
              LET r == ReferentialResult(df, column, reference_values, sample)
              IN  /\ results' = _add_result(results, "referential_integrity", r.status,
                                            clock, r.details)
                  /\ ret' = r
    /\ call' = [op |-> "check_referential_integrity", column |-> column,
                reference_values |-> reference_values]
    /\ UNCHANGED <<thresholds, clock, df, schemas, puts, peer, held>>

\* ---- get_summary -------------------------------------------------------

\* statuses.count(s)
Count(statuses, s) == Cardinality({i \in 1..Len(statuses) : statuses[i] = s})

\* Summary with the precedence of WARN and FAIL exchanged
SummaryWarnFirst(rs) ==
    LET statuses == [i \in 1..Len(rs) |-> rs[i].status]
        overall == IF \E i \in 1..Len(statuses) : statuses[i] = "WARN" THEN "WARN"
                   ELSE IF \E i \in 1..Len(statuses) : statuses[i] = "FAIL" THEN "FAIL"
                   ELSE "PASS"
    IN  [overallStatus |-> overall,
         totalChecks |-> Len(rs),
         passed |-> Count(statuses, "PASS"),
         warnings |-> Count(statuses, "WARN"),
         failed |-> Count(statuses, "FAIL")]

\* The dict get_summary returns for the result list rs.  Its "checks" entry is the
\* list object self.results itself, not a copy: it is read through the checker.
Summary(rs) ==
    LET statuses == [i \in 1..Len(rs) |-> rs[i].status]
        overall == IF \E i \in 1..Len(statuses) : statuses[i] = "FAIL" THEN "FAIL"
                   ELSE IF \E i \in 1..Len(statuses) : statuses[i] = "WARN" THEN "WARN"
                   ELSE "PASS"
    IN  [overallStatus |-> overall,
         totalChecks |-> Len(rs),
         passed |-> Count(statuses, "PASS"),
         warnings |-> Count(statuses, "WARN"),
         failed |-> Count(statuses, "FAIL")]

\* summary["checks"] as read from a summary that get_summary returned: the
\* entry is the list self.results itself, so it reads the list as it is now
HeldChecks(summary, rs) == rs

get_summary ==
    /\ ret' = Summary(results)
    /\ held' = <<Summary(results)>>
    /\ call' = [op |-> "get_summary"]
    /\ UNCHANGED <<thresholds, results, clock, df, schemas, puts, peer>>

\* ---- a second instance ------------------------------------------------

\* ResultsAfterPeer for two instances that hold one list between them
ResultsAfterPeerShared(rs, peer_rs, check_name, status, now, details) ==
    <<_add_result(rs, check_name, status, now, details),
      _add_result(peer_rs, check_name, status, now, details)>>

\* self.results.append(result) run by the second instance: the first instance's
\* list and the second's after it.  Each __init__ made a list of its own.
ResultsAfterPeer(rs, peer_rs, check_name, status, now, details) ==
    <<rs, _add_result(peer_rs, check_name, status, now, details)>>

\* check_nulls on the second instance
peer_check_nulls(required_columns) ==
    /\ Len(peer.results) < MaxResults
    /\ LET r == NullsResult(df, peer.thresholds, required_columns)
           after == ResultsAfterPeer(results, peer.results, "null_check", r.status, clock,
                                     [columns_checked |-> Len(required_columns),
                                      column_results |-> r.report])
       IN  /\ results' = after[1]
           /\ peer' = [peer EXCEPT !.results = after[2]]
           /\ ret' = [status |-> r.status, details |-> r.report]
    /\ call' = [op |-> "check_nulls", instance |-> "peer",
                required_columns |-> required_columns]
    /\ UNCHANGED <<thresholds, clock, df, schemas, puts, held>>

\* check_row_count on the second instance
peer_check_row_count(expected_min, expected_max, previous_count, variance_threshold_pct) ==
    /\ Len(peer.results) < MaxResults
    /\ LET r == RowCountResult(df, peer.thresholds, expected_min, expected_max,
                               previous_count, variance_threshold_pct)
           after == ResultsAfterPeer(results, peer.results, "row_count_check", r.status,
                                     clock, r.details)
       IN  /\ results' = after[1]
           /\ peer' = [peer EXCEPT !.results = after[2]]
           /\ ret' = r
    /\ call' = [op |-> "check_row_count", instance |-> "peer",
                expected_min |-> expected_min, expected_max |-> expected_max,
                previous_count |-> previous_count,
                variance_threshold_pct |-> variance_threshold_pct]
    /\ UNCHANGED <<thresholds, clock, df, schemas, puts, held>>

\* ---- QualityReporter ---------------------------------------------------

\* now.strftime('%H%M%S') of an instant in whole hours: the time of day
strftime_HMS(now) == now % 24

\* if d:  -- None and the empty dict are false
Present(d) == d # None /\ d[1] # EmptyDict

\* d.get(key, "PASS")
GetOrPass(d, key) == IF key \in DOMAIN d THEN d[key] ELSE "PASS"

\* _determine_overall_status looking at the schema phase only
_determine_overall_status_schema_only(schema_results, quality_results) ==
    IF Present(schema_results) THEN GetOrPass(schema_results[1], "status") ELSE "PASS"

\* _determine_overall_status; an argument is <<>> (None) or <<dict>>
_determine_overall_status(schema_results, quality_results) ==
    LET statuses ==
            (IF Present(schema_results)
             THEN <<GetOrPass(schema_results[1], "status")>> ELSE <<>>)
            \o (IF Present(quality_results)
                THEN <<GetOrPass(quality_results[1], "overallStatus")>> ELSE <<>>)
    IN  IF \E i \in 1..Len(statuses) : statuses[i] = "FAIL" THEN "FAIL"
        ELSE IF \E i \in 1..Len(statuses) : statuses[i] = "WARN" THEN "WARN"
        ELSE "PASS"

\* The report generate_report builds at the instant now
Report(entity, schema_results, quality_results, process_date, now) ==
    [report_id |-> <<entity, process_date, strftime_HMS(now)>>,
     entity |-> entity,
     process_date |-> process_date,
     generated_at |-> now,
     schema_validation |-> schema_results,
     data_quality |-> quality_results,
     overall_status |-> _determine_overall_status(schema_results, quality_results)]

generate_report(entity, schema_results, quality_results, process_date) ==
    /\ ret' = Report(entity, schema_results, quality_results, process_date, clock)
    /\ call' = [op |-> "generate_report", entity |-> entity,
                schema_results |-> schema_results, quality_results |-> quality_results,
                process_date |-> process_date]
    /\ UNCHANGED <<thresholds, results, clock, df, schemas, puts, peer, held>>

\* now.strftime('%Y'), ('%m') and ('%d') of an instant in whole hours: its
\* calendar day, counted from the day of instant 0
strftime_Ymd(now) == now \div 24

\* now.strftime('%H%M%S') as text: six characters, the hour zero-padded
strftime_HMS_text(now) ==
    LET digit == <<"0", "1", "2", "3", "4", "5", "6", "7", "8", "9">>
        hour == strftime_HMS(now)
    IN  <<digit[(hour \div 10) + 1], digit[(hour % 10) + 1], "0", "0", "0", "0">>

\* self.bucket, the default of __init__
Bucket == "c360-quality-logs-dev"

\* save_report's key: the entity, the day of the save and the report's id
ReportKey(report, now) ==
    [prefix |-> "quality-reports/", entity |-> report.entity,
     day |-> strftime_Ymd(now), name |-> report.report_id]

\* QuarantineKey without the reason in the file name
QuarantineKeyNoReason(entity, reason, now) ==
    [prefix |-> "quarantine/", entity |-> entity, day |-> now \div 24,
     name |-> <<"bad_records_">> \o strftime_HMS_text(now) \o <<".json">>]

\* save_bad_records' key: the entity, the day of the save and a file name made
\* of the reason's characters and the time of day.  process_date is not used.
QuarantineKey(entity, reason, now) ==
    [prefix |-> "quarantine/", entity |-> entity, day |-> strftime_Ymd(now),
     name |-> <<"bad_records_">> \o reason \o <<"_">> \o strftime_HMS_text(now)
              \o <<".json">>]

\* SaveOutcome returning the location whether or not the write succeeded
SaveOutcomeSwallows(ok, key) ==
    [location |-> [bucket |-> "c360-quality-logs-dev", key |-> key]]

\* What a save returns: put_object raised and the exception propagates, or it
\* returned and the s3 URI is built from the bucket and the key
SaveOutcome(ok, key) ==
    IF ok THEN [location |-> [bucket |-> Bucket, key |-> key]]
    ELSE [raised |-> "ClientError"]

\* save_report; ok tells whether the store accepts the write
save_report(report, ok) ==
    /\ Len(puts) < MaxPuts
    /\ call' = [op |-> "save_report", report |-> report, now |-> clock]
    /\ LET key == ReportKey(report, clock)
       IN  /\ puts' = Append(puts, [by |-> call', key |-> key, body |-> report, ok |-> ok])
           /\ ret' = SaveOutcome(ok, key)
    /\ UNCHANGED <<thresholds, results, clock, df, schemas, peer, held>>

\* save_bad_records; ok tells whether the store accepts the write
save_bad_records(records, entity, process_date, reason, ok) ==
    /\ Len(puts) < MaxPuts
    /\ call' = [op |-> "save_bad_records", records |-> records, entity |-> entity,
                process_date |-> process_date, reason |-> reason, now |-> clock]
    /\ LET key == QuarantineKey(entity, reason, clock)
       IN  /\ puts' = Append(puts, [by |-> call', key |-> key, body |-> records, ok |-> ok])
           /\ ret' = SaveOutcome(ok, key)
    /\ UNCHANGED <<thresholds, results, clock, df, schemas, peer, held>>

\* An hour passes
Tick ==
    /\ clock < MaxHour
    /\ clock' = clock + 1
    /\ UNCHANGED <<thresholds, results, df, schemas, puts, peer, held, call, ret>>

----------------------------------------------------------------------------
(* SchemaValidator *)

\* A record is the list of its items, [k, v], in insertion order with distinct
\* keys; a value is a cell: a string Str(n), a number Num(n) or null.

\* The keys of a record
Keys(record) == {record[n].k : n \in 1..Len(record)}

\* record[key]
Get(record, key) == record[CHOOSE n \in 1..Len(record) : record[n].k = key].v

\* The clickstream schema: four required string fields, event_type and channel
\* restricted to an enumeration.  Str(1), Str(2) stand for two listed values.
ClickstreamSchema ==
    [required |-> <<"event_id", "event_type", "event_timestamp", "customer_id">>,
     properties |-> <<[k |-> "event_id", type |-> "str", enum |-> {}],
                      [k |-> "event_type", type |-> "str", enum |-> {Str(1), Str(2)}],
                      [k |-> "event_timestamp", type |-> "str", enum |-> {}],
                      [k |-> "customer_id", type |-> "str", enum |-> {}],
                      [k |-> "session_id", type |-> "str", enum |-> {}],
                      [k |-> "channel", type |-> "str", enum |-> {Str(1), Str(2)}]>>]

\* __init__ / _load_schemas: one validator per schema file of the schemas directory
SchemaValidator_init == [e \in {"clickstream"} |-> ClickstreamSchema]

\* The errors of one property of the schema, in keyword order: type, then enum
PropertyErrors(record, prop) ==
    IF prop.k \notin Keys(record) THEN <<>>
    ELSE LET v == Get(record, prop.k)
         IN  (IF v.kind # prop.type THEN <<[path |-> prop.k, keyword |-> "type"]>>
              ELSE <<>>)
             \o (IF prop.enum # {} /\ v \notin prop.enum
                 THEN <<[path |-> prop.k, keyword |-> "enum"]>> ELSE <<>>)

RECURSIVE PropertiesErrors(_, _, _)
PropertiesErrors(record, props, n) ==
    IF n > Len(props) THEN <<>>
    ELSE PropertyErrors(record, props[n]) \o PropertiesErrors(record, props, n + 1)

\* One error per required field the record lacks
RECURSIVE RequiredErrors(_, _, _)
RequiredErrors(record, required, n) ==
    IF n > Len(required) THEN <<>>
    ELSE (IF required[n] \notin Keys(record)
          THEN <<[path |-> required[n], keyword |-> "required"]>> ELSE <<>>)
         \o RequiredErrors(record, required, n + 1)

\* iter_errors that never reports a missing required field
iter_errors_properties_only(schema, record) ==
    PropertiesErrors(record, schema.properties, 1)

\* Draft7Validator(schema).iter_errors(record)
iter_errors(schema, record) ==
    PropertiesErrors(record, schema.properties, 1)
    \o RequiredErrors(record, schema.required, 1)

\* RecordResult that accepts every record of an entity without a schema
RecordResultNoSchemaValid(validators, record, entity) ==
    IF entity \notin DOMAIN validators
    THEN [is_valid |-> TRUE, errors |-> <<>>]
    ELSE LET errors == iter_errors(validators[entity], record)
         IN  [is_valid |-> Len(errors) = 0, errors |-> errors]

\* validate_record as a function of the validators and its inputs: [is_valid, errors]
RecordResult(validators, record, entity) ==
    IF entity \notin DOMAIN validators
    THEN [is_valid |-> FALSE, errors |-> <<[path |-> entity, keyword |-> "No schema found"]>>]
    ELSE LET errors == iter_errors(validators[entity], record)
         IN  [is_valid |-> Len(errors) = 0, errors |-> errors]

\* validators_after for a dict that inserts a default on a missing key
validators_after_inserting(validators, entity) ==
    IF entity \in DOMAIN validators THEN validators
    ELSE [e \in DOMAIN validators \cup {entity} |->
             IF e = entity THEN [required |-> <<>>, properties |-> <<>>]
             ELSE validators[e]]

\* self._validators after "entity not in self._validators" and
\* "self._validators[entity]": it is a plain dict, and reading it inserts nothing
validators_after(validators, entity) == validators

validate_record(record, entity) ==
    /\ ret' = RecordResult(schemas, record, entity)
    /\ schemas' = validators_after(schemas, entity)
    /\ call' = [op |-> "validate_record", record |-> record, entity |-> entity]
    /\ UNCHANGED <<thresholds, results, clock, df, puts, peer, held>>

ErrorDetailsCap == 100
ErrorSamplesSize == 10
RecordSampleSize == 5

\* BatchStep without the cap on the collected detail entries
BatchStepUncapped(validators, entity, i, record, acc) ==
    LET r == RecordResult(validators, record, entity)
    IN  IF r.is_valid
        THEN [acc EXCEPT !.valid_count = @ + 1]
        ELSE [valid_count |-> acc.valid_count,
              invalid_count |-> acc.invalid_count + 1,
              error_details |->
                  Append(acc.error_details,
                         [record_index |-> i,
                          errors |-> r.errors,
                          record_sample |-> head(record, RecordSampleSize)])]

\* One iteration of the loop over enumerate(records); i is the 0-based index and
\* acc is [valid_count, invalid_count, error_details]
BatchStep(validators, entity, i, record, acc) ==
    LET r == RecordResult(validators, record, entity)
    IN  IF r.is_valid
        THEN [acc EXCEPT !.valid_count = @ + 1]
        ELSE [valid_count |-> acc.valid_count,
              invalid_count |-> acc.invalid_count + 1,
              error_details |->
                  IF Len(acc.error_details) < ErrorDetailsCap
                  THEN Append(acc.error_details,
                              [record_index |-> i,
                               errors |-> r.errors,
                               record_sample |-> head(record, RecordSampleSize)])
                  ELSE acc.error_details]

\* The loop over records[lo..hi] from the locals acc: the iterations of the
\* first half of the range, then those of the second half, in order.  The test
\* on the count makes the first half's locals a value before the second half
\* starts, as the loop has them; it always holds.
RECURSIVE BatchLoop(_, _, _, _, _, _)
BatchLoop(validators, entity, records, lo, hi, acc) ==
    IF lo > hi THEN acc
    ELSE IF lo = hi THEN BatchStep(validators, entity, lo - 1, records[lo], acc)
    ELSE LET mid == (lo + hi) \div 2
             first == BatchLoop(validators, entity, records, lo, mid, acc)
         IN  IF first.invalid_count >= 0
             THEN BatchLoop(validators, entity, records, mid + 1, hi, first)
             ELSE first

\* The loop's locals when it ends
BatchLocals(validators, records, entity) ==
    BatchLoop(validators, entity, records, 1, Len(records),
              [valid_count |-> 0, invalid_count |-> 0, error_details |-> <<>>])

\* max(total, 1)
Max1(total) == IF total > 1 THEN total ELSE 1

\* BatchSummary taking the percentage of the invalid records
BatchSummaryPctOfInvalid(entity, total, acc) ==
    [entity |-> entity,
     total_records |-> total,
     valid_records |-> acc.valid_count,
     invalid_records |-> acc.invalid_count,
     validity_percentage |-> Round2([num |-> acc.invalid_count * 100, den |-> Max1(total)]),
     status |-> IF acc.invalid_count = 0 THEN "PASS" ELSE "FAIL",
     error_samples |-> head(acc.error_details, ErrorSamplesSize)]

\* BatchSummary with a WARN tier for a batch that is partly valid
BatchSummaryWarnTier(entity, total, acc) ==
    [entity |-> entity,
     total_records |-> total,
     valid_records |-> acc.valid_count,
     invalid_records |-> acc.invalid_count,
     validity_percentage |-> Round2([num |-> acc.valid_count * 100, den |-> Max1(total)]),
     status |-> IF acc.invalid_count = 0 THEN "PASS"
                ELSE IF acc.valid_count > 0 THEN "WARN" ELSE "FAIL",
     error_samples |-> head(acc.error_details, ErrorSamplesSize)]

\* The dict validate_batch returns, built from the loop's locals
BatchSummary(entity, total, acc) ==
    [entity |-> entity,
     total_records |-> total,
     valid_records |-> acc.valid_count,
     invalid_records |-> acc.invalid_count,
     validity_percentage |-> Round2([num |-> acc.valid_count * 100, den |-> Max1(total)]),
     status |-> IF acc.invalid_count = 0 THEN "PASS" ELSE "FAIL",
     error_samples |-> head(acc.error_details, ErrorSamplesSize)]

validate_batch(records, entity) ==
    /\ ret' = BatchSummary(entity, Len(records), BatchLocals(schemas, records, entity))
    /\ schemas' = validators_after(schemas, entity)
    /\ call' = [op |-> "validate_batch", records |-> records, entity |-> entity]
    /\ UNCHANGED <<thresholds, results, clock, df, puts, peer, held>>

----------------------------------------------------------------------------
(* Inputs *)

NoCall == [op |-> "none"]
NoRet == [status |-> "none"]

EmptyTable == [columns |-> {}, rows |-> <<>>]

\* A threshold dict with every key
Thresholds(n, d, r, f) ==
    [null_percentage_max |-> n, duplicate_percentage_max |-> d,
     min_row_count |-> r, freshness_hours_max |-> f]

\* What the constructor is given: nothing, or an explicit dict
ThresholdArgs(explicit) == {NoThresholds} \cup {<<t>> : t \in explicit}

\* The checker right after construction, on table t at instant c, beside a
\* schema validator right after its construction, a reporter that has written
\* nothing and a second checker constructed without thresholds
Constructed(arg, t, c) ==
    /\ thresholds = DataQualityChecker_init(arg)
    /\ results = <<>>
    /\ clock = c
    /\ df = t
    /\ schemas = SchemaValidator_init
    /\ puts = <<>>
    /\ peer = NewChecker(NoThresholds)
    /\ held = None
    /\ call = NoCall
    /\ ret = NoRet

----------------------------------------------------------------------------
(* Spec: one checker run -- any sequence of checks and summaries on one table *)

RunTables == Tables({"k"}, {Null, Num(0), Str(0)}, MaxRowsSmall)
RunThresholds == {Thresholds(50, 50, 1, 0)}
RunColumns == {"k", "m"}
RunRules == {<<[col |-> c, rules |-> [min |-> 1]]>> : c \in RunColumns}
RunCounts == {None, Some(1)}

Init ==
    \E arg \in ThresholdArgs(RunThresholds), t \in RunTables :
        Constructed(arg, t, MaxClock)

Next ==
    \/ \E c \in RunColumns : check_nulls(<<c>>)
    \/ \E c \in RunColumns : check_duplicates(<<c>>)
    \/ \E r \in RunRules : check_ranges(r)
    \/ \E n \in RunCounts : check_row_count(n, None, n, DefaultVarianceThresholdPct)
    \/ \E c \in RunColumns : check_freshness(c)
    \/ \E c \in RunColumns, ref \in {{}, {Num(0)}} : check_referential_integrity(c, ref)
    \/ get_summary

Spec == Init /\ [][Next]_vars

----------------------------------------------------------------------------
(* SpecNulls: check_nulls on every small two-column table *)

MaxRowsNulls == 3

\* Lists of column names a caller passes: present, absent ("m"), in both orders
ColumnLists == {<<>>, <<"k">>, <<"v">>, <<"m">>, <<"k", "v">>, <<"v", "k">>,
                <<"k", "m">>, <<"m", "k">>}

NullsThresholds == {Thresholds(n, 1, 100, 6) : n \in {0, 34, 50, 100}}

InitNulls ==
    \E arg \in ThresholdArgs(NullsThresholds),
       t \in Tables({"k", "v"}, {Null, Num(0)}, MaxRowsNulls) :
        Constructed(arg, t, 0)

NextNulls == \E cols \in ColumnLists : results = <<>> /\ check_nulls(cols)

SpecNulls == InitNulls /\ [][NextNulls]_vars

----------------------------------------------------------------------------
(* SpecDup: check_duplicates on tables long enough to hold six duplicates *)

MaxRowsDup == 7

\* Rows that agree on k but not on v, and rows that differ on k
DupRows == {("k" :> Num(0)) @@ ("v" :> Num(0)),
            ("k" :> Num(0)) @@ ("v" :> Num(1)),
            ("k" :> Num(1)) @@ ("v" :> Num(0))}

DupTables ==
    UNION {[columns : {{"k", "v"}}, rows : [1..n -> DupRows]] : n \in 0..MaxRowsDup}

DupThresholds == {Thresholds(5, d, 100, 6) : d \in {0, 50}}

KeyLists == {<<"k">>, <<"k", "v">>, <<"v", "k">>, <<"m">>, <<"k", "m">>}

InitDup ==
    \E arg \in ThresholdArgs(DupThresholds), t \in DupTables : Constructed(arg, t, 0)

NextDup == \E keys \in KeyLists : results = <<>> /\ check_duplicates(keys)

SpecDup == InitDup /\ [][NextDup]_vars

----------------------------------------------------------------------------
(* SpecRanges: check_ranges on every small two-column table *)

MaxRowsRanges == 2

RangeRules == {[min |-> 1], [max |-> 1], [min |-> 0, max |-> 2]}

\* range_rules dicts of one or two distinct columns, "m" absent from the table
RangeRuleLists ==
    {<<[col |-> c, rules |-> r]>> : c \in {"k", "v", "m"}, r \in RangeRules}
    \cup {p \in {<<[col |-> c1, rules |-> r1], [col |-> c2, rules |-> r2]>> :
                    c1 \in {"k", "v", "m"}, c2 \in {"k", "v", "m"},
                    r1 \in RangeRules, r2 \in {[min |-> 1], [max |-> 1]}} :
            p[1].col # p[2].col}

\* Column k holds numbers and nulls; column v may also hold a string
RangesRows == {("k" :> a) @@ ("v" :> b) :
                  a \in {Null, Num(0), Num(2)}, b \in {Null, Num(0), Num(2), Str(0)}}

RangesTables ==
    UNION {[columns : {{"k", "v"}}, rows : [1..n -> RangesRows]] : n \in 0..MaxRowsRanges}

InitRanges == \E t \in RangesTables : Constructed(NoThresholds, t, 0)

NextRanges == \E r \in RangeRuleLists : results = <<>> /\ check_ranges(r)

SpecRanges == InitRanges /\ [][NextRanges]_vars

----------------------------------------------------------------------------
(* SpecRowCount: check_row_count with each argument supplied, zero and omitted *)

MaxRowsCount == 3

RowCountThresholds == {Thresholds(5, 1, r, 6) : r \in {0, 2}}

InitRowCount ==
    \E arg \in ThresholdArgs(RowCountThresholds),
       t \in Tables({"k"}, {Num(0)}, MaxRowsCount) :
        Constructed(arg, t, 0)

NextRowCount ==
    \E expected_min \in {None, Some(0), Some(1), Some(3)},
       expected_max \in {None, Some(0), Some(1)},
       previous_count \in {None, Some(-1), Some(0), Some(1), Some(2)},
       variance_threshold_pct \in {DefaultVarianceThresholdPct, 100} :
        /\ results = <<>>
        /\ check_row_count(expected_min, expected_max, previous_count,
                           variance_threshold_pct)

SpecRowCount == InitRowCount /\ [][NextRowCount]_vars

----------------------------------------------------------------------------
(* SpecFresh: check_freshness at every instant up to MaxNow hours *)

MaxRowsFresh == 2
MaxNow == 8

FreshThresholds == {Thresholds(5, 1, 100, f) : f \in {0, 1}}

InitFresh ==
    \E arg \in ThresholdArgs(FreshThresholds),
       t \in Tables({"k"}, {Null, Num(0), Num(1), Str(0)}, MaxRowsFresh),
       c \in 0..MaxNow :
        Constructed(arg, t, c)

NextFresh == \E c \in {"k", "m"} : results = <<>> /\ check_freshness(c)

SpecFresh == InitFresh /\ [][NextFresh]_vars

----------------------------------------------------------------------------
(* SpecRef: check_referential_integrity on small tables and on long ones *)

MaxRowsRef == 12

\* n rows: a null, then the numbers 2, 3, ... taken modulo m
LongTable(n, m) ==
    [columns |-> {"k"},
     rows |-> [i \in 1..n |-> ("k" :> IF i = 1 THEN Null ELSE Num(i % m))]]

RefTables ==
    Tables({"k"}, {Null, Num(0), Num(1)}, MaxRowsSmall)
    \cup {LongTable(n, m) : n \in 0..MaxRowsRef, m \in 1..MaxRowsRef}

\* Reference sets: the numbers lo..hi, with and without a null
ReferenceSets ==
    {{Num(i) : i \in lo..hi} \cup extra :
        lo \in 0..MaxRowsRef, hi \in 0..MaxRowsRef, extra \in {{}, {Null}}}

InitRef == \E t \in RefTables : Constructed(NoThresholds, t, 0)

NextRef ==
    \E c \in {"k", "m"}, ref \in ReferenceSets :
        results = <<>> /\ check_referential_integrity(c, ref)

SpecRef == InitRef /\ [][NextRef]_vars

----------------------------------------------------------------------------
(* SpecReport: generate_report for every combination of the two phases *)

\* A phase's result: None, the empty dict, a dict with its status, a dict without
PhaseResults(key) ==
    {None, Some(EmptyDict), Some([total |-> 0])}
    \cup {Some((key :> s) @@ [total |-> 0]) : s \in {"PASS", "WARN", "FAIL"}}

InitReport == \E c \in 0..MaxClock : Constructed(NoThresholds, EmptyTable, c)

NextReport ==
    \E entity \in {"customers", "transactions"},
       process_date \in {"2025-01-01", "2025-01-02"},
       schema_results \in PhaseResults("status"),
       quality_results \in PhaseResults("overallStatus") :
        generate_report(entity, schema_results, quality_results, process_date)

SpecReport == InitReport /\ [][NextReport]_vars

----------------------------------------------------------------------------
(* SpecStore: reports generated and saved, bad records quarantined, while the *)
(* clock runs from the last hour of a day into the next day                   *)

StoreDates == {"2025-01-01", "2025-01-02"}

\* A schema phase that passed and one that failed
StorePhases == {Some([status |-> s]) : s \in {"PASS", "FAIL"}}

\* The reports generate_report has returned for one entity and date by the
\* instant now: at the start of the run or just now, for either phase result
ReportsBy(now) ==
    {Report("customers", schema_results, None, "2025-01-01", t) :
        schema_results \in StorePhases, t \in {23, now}}

\* Reasons as text: one is the other followed by an underscore
Reasons == {<<"a">>, <<"a", "_">>}

InitStore == Constructed(NoThresholds, EmptyTable, 23)

NextStore ==
    \/ Tick
    \/ \E report \in ReportsBy(clock), ok \in BOOLEAN : save_report(report, ok)
    \/ \E process_date \in StoreDates, reason \in Reasons, ok \in BOOLEAN :
           save_bad_records(<<[record_index |-> 0]>>, "customers", process_date, reason, ok)

SpecStore == InitStore /\ [][NextStore]_vars

----------------------------------------------------------------------------
(* SpecPeers: two checkers, each constructed with or without thresholds, *)
(* their checks interleaved                                              *)

PeerTables == Tables({"k"}, {Null, Num(0)}, MaxRowsSmall)

InitPeers ==
    \E arg \in ThresholdArgs(RunThresholds), peer_arg \in ThresholdArgs(RunThresholds),
       t \in PeerTables :
        /\ thresholds = DataQualityChecker_init(arg)
        /\ results = <<>>
        /\ peer = NewChecker(peer_arg)
        /\ clock = 0
        /\ df = t
        /\ schemas = SchemaValidator_init
        /\ puts = <<>>
        /\ held = None
        /\ call = NoCall
        /\ ret = NoRet

NextPeers ==
    \/ check_nulls(<<"k">>)
    \/ check_row_count(None, None, None, DefaultVarianceThresholdPct)
    \/ peer_check_nulls(<<"k">>)
    \/ peer_check_row_count(None, None, None, DefaultVarianceThresholdPct)

SpecPeers == InitPeers /\ [][NextPeers]_vars

----------------------------------------------------------------------------
(* SpecValidator: validate_record and validate_batch, schema loaded and not *)

MaxBatchSmall == 2
MaxBatch == 101

\* What a record may carry for a field: nothing, a listed string, an unlisted
\* string, a number
FieldChoices == {<<>>, <<Str(1)>>, <<Str(9)>>, <<Num(1)>>}

\* The item of a field, or no item
Item(key, choice) == IF choice = <<>> THEN <<>> ELSE <<[k |-> key, v |-> choice[1]]>>

\* Records of up to six fields in schema order; event_id is present and valid
ClickRecords ==
    {Item("event_id", <<Str(9)>>) \o Item("event_type", a) \o Item("event_timestamp", b)
        \o Item("customer_id", c) \o Item("session_id", d) \o Item("channel", e) :
        a \in FieldChoices, b \in {<<>>, <<Str(9)>>}, c \in {<<>>, <<Str(9)>>, <<Num(1)>>},
        d \in {<<>>, <<Str(9)>>}, e \in {<<>>, <<Str(1)>>, <<Str(9)>>}}

\* A record satisfying the clickstream schema
ValidRecord ==
    Item("event_id", <<Str(9)>>) \o Item("event_type", <<Str(1)>>)
        \o Item("event_timestamp", <<Str(9)>>) \o Item("customer_id", <<Str(9)>>)

\* Four records for batches: valid, valid with six fields, one required field
\* missing, six fields with an unlisted event_type and channel
BatchRecords ==
    {ValidRecord,
     Item("event_id", <<Str(9)>>) \o Item("event_type", <<Str(2)>>)
        \o Item("event_timestamp", <<Str(9)>>) \o Item("customer_id", <<Str(9)>>)
        \o Item("session_id", <<Str(9)>>) \o Item("channel", <<Str(1)>>),
     Item("event_id", <<Str(9)>>) \o Item("event_type", <<Str(1)>>)
        \o Item("customer_id", <<Str(9)>>),
     Item("event_id", <<Str(9)>>) \o Item("event_type", <<Str(9)>>)
        \o Item("event_timestamp", <<Str(9)>>) \o Item("customer_id", <<Str(9)>>)
        \o Item("session_id", <<Str(9)>>) \o Item("channel", <<Str(9)>>)}

\* n records: every third one is a, the others are b
LongBatch(n, a, b) == [i \in 1..n |-> IF i % 3 = 0 THEN a ELSE b]

Batches ==
    UNION {[1..n -> BatchRecords] : n \in 0..MaxBatchSmall}
    \cup {LongBatch(n, a, a) : n \in 0..MaxBatch, a \in BatchRecords}
    \cup {LongBatch(n, a, ValidRecord) : n \in 0..MaxBatch, a \in BatchRecords}

Entities == {"clickstream", "nonexistent"}

InitValidator == Constructed(NoThresholds, EmptyTable, 0)

\* One call on the freshly loaded validator
NextValidator ==
    /\ call = NoCall
    /\ \/ \E record \in ClickRecords, entity \in Entities : validate_record(record, entity)
       \/ \E records \in Batches, entity \in Entities : validate_batch(records, entity)

SpecValidator == InitValidator /\ [][NextValidator]_vars

----------------------------------------------------------------------------
(* SpecValidatorRuns: any sequence of validate_record and validate_batch  *)
(* calls on one validator, for the loaded entity and the unknown one alike *)

ShortBatches == UNION {[1..n -> BatchRecords] : n \in 0..MaxBatchSmall}

NextValidatorRuns ==
    \/ \E record \in ClickRecords, entity \in Entities : validate_record(record, entity)
    \/ \E records \in ShortBatches, entity \in Entities : validate_batch(records, entity)

SpecValidatorRuns == InitValidator /\ [][NextValidatorRuns]_vars

----------------------------------------------------------------------------
(* Claims *)

\* The worst of a set of statuses under FAIL > WARN > PASS
Worst(S) == IF "FAIL" \in S THEN "FAIL" ELSE IF "WARN" \in S THEN "WARN" ELSE "PASS"

\* The elements of a sequence
Range(s) == {s[i] : i \in 1..Len(s)}

\* C1: whatever checks ran before, get_summary returns overallStatus FAIL if some
\* accumulated result is FAIL, else WARN if some is WARN, else PASS; totalChecks is
\* the number of accumulated results and passed + warnings + failed = totalChecks.
C1_SummaryIsWorst ==
    call.op = "get_summary" =>
        /\ ret.overallStatus = Worst({results[i].status : i \in 1..Len(results)})
        /\ ret.totalChecks = Len(results)
        /\ ret.passed + ret.warnings + ret.failed = ret.totalChecks

\* A summary over a FAIL and a WARN result
C1_Witness ==
    /\ call.op = "get_summary"
    /\ ret.overallStatus = "FAIL"
    /\ ret.warnings = 1
    /\ ret.failed = 1

\* What a phase contributes to the report's status: nothing when the phase is
\* absent (None or empty), PASS when its dict lacks the status key
Contribution(phase, key) ==
    IF phase = None \/ DOMAIN phase[1] = {} THEN {}
    ELSE IF key \in DOMAIN phase[1] THEN {phase[1][key]}
    ELSE {"PASS"}

\* C2: generate_report sets overall_status to the worst of schema_results.status
\* and quality_results.overallStatus; a present result without its status field
\* counts as PASS, an absent phase contributes nothing, both absent give PASS.
C2_ReportStatus ==
    call.op = "generate_report" =>
        /\ ret.overall_status =
              Worst(Contribution(call.schema_results, "status")
                    \cup Contribution(call.quality_results, "overallStatus"))
        /\ (~Present(call.schema_results) /\ ~Present(call.quality_results)) =>
              ret.overall_status = "PASS"

\* A schema result without a status field beside a WARN quality result
C2_Witness ==
    /\ call.op = "generate_report"
    /\ call.schema_results = Some([total |-> 0])
    /\ call.quality_results = Some([overallStatus |-> "WARN", total |-> 0])
    /\ ret.overall_status = "WARN"

\* The null percentage of a present column exceeds / lies within the threshold
NullPctExceeds(t, th, c) ==
    len(t) > 0 /\ NullCount(t, c) * 100 > th.null_percentage_max * len(t)
NullPctWithin(t, th, c) ==
    len(t) > 0 /\ NullCount(t, c) > 0 /\ ~NullPctExceeds(t, th, c)

\* What C3 says check_nulls returns for a set of required columns
C3_Expected(t, th, cols) ==
    IF \E c \in cols : c \notin t.columns \/ NullPctExceeds(t, th, c) THEN "FAIL"
    ELSE IF \E c \in cols : NullPctWithin(t, th, c) THEN "WARN"
    ELSE "PASS"

DistinctKeys(t, key_columns) == {KeyOf(t, key_columns, i) : i \in 1..len(t)}

\* Rows minus distinct keys: every occurrence of a key after its first
TrueDupCount(t, key_columns) == len(t) - Cardinality(DistinctKeys(t, key_columns))

C5_DuplicateCount ==
    (call.op = "check_duplicates" /\ "status" \in DOMAIN ret) =>
        LET d == ret.details
        IN  /\ d.duplicate_count = TrueDupCount(df, call.key_columns)
            /\ ("sample_duplicates" \in DOMAIN d) <=> (d.duplicate_count > 0)
            /\ "sample_duplicates" \in DOMAIN d =>
                  /\ Len(d.sample_duplicates) <= 5
                  /\ Len(d.sample_duplicates) =
                        IF d.duplicate_count < 5 THEN d.duplicate_count ELSE 5
                  /\ \A n \in 1..Len(d.sample_duplicates) :
                        Cardinality({i \in 1..len(df) :
                            KeyOf(df, call.key_columns, i) = d.sample_duplicates[n]}) >= 2

\* Six duplicates, of which five are sampled
C5_Witness ==
    /\ call.op = "check_duplicates"
    /\ "status" \in DOMAIN ret
    /\ ret.details.duplicate_count = 6
    /\ Len(ret.details.sample_duplicates) = 5

\* The columns a range_rules dict rules
RuledColumns(range_rules) == {range_rules[n].col : n \in 1..Len(range_rules)}

\* The rules given for a column
RulesOf(range_rules, c) ==
    (CHOOSE n \in 1..Len(range_rules) : range_rules[n].col = c) 

\* Some value of column c lies below the min or above the max given for it
OutOfRange(t, c, rules) ==
    \E i \in 1..len(t) :
        /\ t.rows[i][c].kind = "num"
        /\ \/ "min" \in DOMAIN rules /\ t.rows[i][c].v < rules["min"]
           \/ "max" \in DOMAIN rules /\ t.rows[i][c].v > rules["max"]

\* C6: a ruled column with every value inside its range is PASS with 0 violations;
\* check_ranges is FAIL as soon as a ruled column is absent or has a value outside
\* its range, never WARN, and every ruled column is evaluated and reported.
C6_RangesStatus ==
    (call.op = "check_ranges" /\ "status" \in DOMAIN ret) =>
        LET rr == call.range_rules
            bad(c) == c \notin df.columns
                      \/ OutOfRange(df, c, rr[RulesOf(rr, c)].rules)
        IN  /\ DOMAIN ret.details = RuledColumns(rr)
            /\ \A c \in RuledColumns(rr) :
                  IF bad(c) THEN ret.details[c].status = "FAIL"
                  ELSE ret.details[c].status = "PASS" /\ ret.details[c].violations = 0
            /\ ret.status = IF \E c \in RuledColumns(rr) : bad(c) THEN "FAIL" ELSE "PASS"
            /\ results[Len(results)].status = ret.status

\* An absent or failing first column, then a column wholly inside its range
C6_Witness ==
    /\ call.op = "check_ranges"
    /\ "status" \in DOMAIN ret
    /\ Len(call.range_rules) = 2
    /\ len(df) > 0
    /\ ret.status = "FAIL"
    /\ ret.details[call.range_rules[1].col].status = "FAIL"
    /\ ret.details[call.range_rules[2].col].status = "PASS"
    /\ ret.details[call.range_rules[2].col].violations = 0

\* C7: check_row_count is FAIL iff the row count is below expected_min when that is
\* supplied (0 included), below the configured min_row_count when it is not, or
\* above expected_max when that is supplied (0 included).
C7_RowCountFail ==
    call.op = "check_row_count" =>
        (ret.status = "FAIL" <=>
            \/ call.expected_min # None /\ len(df) < call.expected_min[1]
            \/ call.expected_min = None /\ len(df) < thresholds.min_row_count
            \/ call.expected_max # None /\ len(df) > call.expected_max[1])

\* The kinds of the issues, in list order
IssueKinds(issues) == [n \in 1..Len(issues) |-> issues[n].kind]

\* The place of an issue kind in the fixed order
IssueRank(kind) ==
    CASE kind = "below_minimum" -> 1 [] kind = "above_maximum" -> 2 [] kind = "variance" -> 3

C8_WitnessWarn ==
    /\ call.op = "check_row_count"
    /\ ret.status = "WARN"
    /\ IssueKinds(ret.details.issues) = <<"variance">>

\* C9: check_freshness is FAIL when the column is missing, when no value is a
\* timestamp (all null, or the table empty) or when parsing raises; otherwise WARN
\* when the latest timestamp is older than freshness_hours_max and PASS when not.
\* Staleness alone never gives FAIL.
C9_FreshnessStatus ==
    call.op = "check_freshness" =>
        LET c == call.timestamp_column
            missing == c \notin df.columns
            raises == ~missing /\ \E i \in 1..len(df) : df.rows[i][c].kind = "str"
            stamps == IF missing THEN {}
                      ELSE {df.rows[i][c].v : i \in {j \in 1..len(df) : df.rows[j][c].kind = "num"}}
            stale == \A x \in stamps : call.now - x > thresholds.freshness_hours_max
        IN  /\ ret.status = IF missing \/ raises \/ stamps = {} THEN "FAIL"
                            ELSE IF stale THEN "WARN"
                            ELSE "PASS"
            /\ results[Len(results)].status = ret.status

\* The latest timestamp is more than twice the default threshold old: still WARN
C9_Witness ==
    /\ call.op = "check_freshness"
    /\ thresholds = DefaultThresholds
    /\ ret.status = "WARN"
    /\ ret.details.latest_timestamp = Num(0)
    /\ call.now = MaxNow
    /\ call.now > DefaultFreshnessHoursMax

\* C10: with the column present, check_referential_integrity is PASS with
\* orphaned_count 0 iff every distinct non-null value is in the reference set, and
\* otherwise FAIL with orphaned_count the number of distinct non-null values
\* outside it; nulls are never orphans; sample_orphans holds at most 10 values,
\* all of them orphans.
C10_ReferentialStatus ==
    (call.op = "check_referential_integrity" /\ call.column \in df.columns) =>
        LET values == {df.rows[i][call.column] : i \in 1..len(df)} \ {Null}
            outside == {x \in values : x \notin call.reference_values}
            d == ret.details
        IN  /\ ret.status = IF outside = {} THEN "PASS" ELSE "FAIL"
            /\ d.orphaned_count = Cardinality(outside)
            /\ ret.status = "PASS" <=> d.orphaned_count = 0
            /\ d.sample_orphans \subseteq outside
            /\ Null \notin d.sample_orphans
            /\ Cardinality(d.sample_orphans) <= 10
            /\ Cardinality(d.sample_orphans) =
                  IF d.orphaned_count < 10 THEN d.orphaned_count ELSE 10
            /\ results[Len(results)].status = ret.status

\* Eleven orphans in a column that also holds a null: ten are sampled
C10_Witness ==
    /\ call.op = "check_referential_integrity"
    /\ call.column \in df.columns
    /\ \E i \in 1..len(df) : isnull(df.rows[i][call.column])
    /\ ret.status = "FAIL"
    /\ ret.details.orphaned_count = 11
    /\ Cardinality(ret.details.sample_orphans) = 10

\* Every value referenced, a null in the column and none in the reference set: PASS
C10_WitnessPass ==
    /\ call.op = "check_referential_integrity"
    /\ call.column \in df.columns
    /\ \E i \in 1..len(df) : isnull(df.rows[i][call.column])
    /\ Null \notin call.reference_values
    /\ ret.status = "PASS"
    /\ ret.details.total_unique_values >= 2

----------------------------------------------------------------------------
(* The result list and the checks' failure paths *)

CheckOps == {"check_nulls", "check_duplicates", "check_ranges", "check_row_count",
             "check_freshness", "check_referential_integrity"}

\* The check_name each operation records under
CheckNameOf(op) ==
    CASE op = "check_nulls" -> "null_check"
      [] op = "check_duplicates" -> "duplicate_check"
      [] op = "check_ranges" -> "range_check"
      [] op = "check_row_count" -> "row_count_check"
      [] op = "check_freshness" -> "freshness_check"
      [] op = "check_referential_integrity" -> "referential_integrity"

\* The call raised instead of returning
Raised(r) == "raised" \in DOMAIN r

\* C11: a check that returns appends exactly one entry, under its own check name
\* and with the status it returns, after the entries already recorded, which stay
\* as they were and where they were; a call that does not return a check's
\* result (get_summary, a check that raises) leaves the list as it was.  The
\* list never shrinks, whatever statuses it already holds.
C11_AppendOnly ==
    [][ /\ (call'.op \in CheckOps /\ ~Raised(ret'))
            => /\ Len(results') = Len(results) + 1
               /\ SubSeq(results', 1, Len(results)) = results
               /\ results'[Len(results')].check_name = CheckNameOf(call'.op)
               /\ results'[Len(results')].status = ret'.status
               /\ results'[Len(results')].timestamp = clock
        /\ (call'.op \notin CheckOps \/ Raised(ret')) => results' = results
      ]_vars

\* A check caught an exception and recorded FAIL, and a later check ran and
\* recorded PASS after it
C11_Witness ==
    /\ Len(results) = 2
    /\ results[1].status = "FAIL"
    /\ "error" \in DOMAIN results[1]
    /\ results[2].status = "PASS"
    /\ results[2].check_name # results[1].check_name
    /\ call.op \in CheckOps

\* C12: every check that returns, returns a dict of exactly status and details
C12_ReturnsStatusDetails ==
    (call.op \in CheckOps /\ ~Raised(ret)) => DOMAIN ret = {"status", "details"}

\* The columns a check's call names
NamedColumns(c) ==
    CASE c.op = "check_nulls" -> Range(c.required_columns)
      [] c.op = "check_duplicates" -> Range(c.key_columns)
      [] c.op = "check_ranges" -> RuledColumns(c.range_rules)
      [] c.op = "check_freshness" -> {c.timestamp_column}
      [] c.op = "check_referential_integrity" -> {c.column}
      [] OTHER -> {}

\* C13: a check naming a column the table lacks returns, and the entry it
\* recorded is a FAIL
C13_MissingColumnFails ==
    (call.op \in CheckOps /\ NamedColumns(call) \ df.columns # {})
        => /\ ~Raised(ret)
           /\ ret.status = "FAIL"
           /\ results # <<>>
           /\ results[Len(results)].check_name = CheckNameOf(call.op)
           /\ results[Len(results)].status = "FAIL"

\* The call met a value it cannot parse or compare
Malformed(c) ==
    \/ /\ c.op = "check_freshness"
       /\ c.timestamp_column \in df.columns
       /\ ParseRaises(df, c.timestamp_column)
    \/ /\ c.op = "check_ranges"
       /\ RangesRaises(df, c.range_rules)

\* C14: a check meeting a malformed value returns FAIL, records it and does not
\* raise
C14_MalformedValueFails ==
    Malformed(call)
        => /\ ~Raised(ret)
           /\ ret.status = "FAIL"
           /\ results # <<>>
           /\ results[Len(results)].check_name = CheckNameOf(call.op)
           /\ results[Len(results)].status = "FAIL"

----------------------------------------------------------------------------
(* The schema validator *)

\* C15: validate_record for an entity without a loaded schema returns
\* (false, errors) with exactly one error, which names the missing schema
C15_NoSchemaRecord ==
    (call.op = "validate_record" /\ call.entity \notin DOMAIN schemas)
        => /\ ~Raised(ret)
           /\ ret.is_valid = FALSE
           /\ Len(ret.errors) = 1
           /\ ret.errors[1] = [path |-> call.entity, keyword |-> "No schema found"]

\* A record that the clickstream schema accepts, validated for an unknown entity
C15_Witness ==
    /\ call.op = "validate_record"
    /\ call.entity \notin DOMAIN schemas
    /\ Len(call.record) = 6
    /\ ret.is_valid = FALSE
    /\ Len(ret.errors) = 1

\* The constraints of a schema that a record violates, as (field, keyword) pairs
SchemaViolations(schema, record) ==
    {<<f, "required">> : f \in Range(schema.required) \ Keys(record)}
    \cup {<<p.k, "type">> : p \in {q \in Range(schema.properties) :
                                      /\ q.k \in Keys(record)
                                      /\ Get(record, q.k).kind # q.type}}
    \cup {<<p.k, "enum">> : p \in {q \in Range(schema.properties) :
                                      /\ q.k \in Keys(record)
                                      /\ q.enum # {}
                                      /\ Get(record, q.k) \notin q.enum}}

C16_WitnessValid ==
    /\ call.op = "validate_record"
    /\ call.entity \in DOMAIN schemas
    /\ Len(call.record) = 6
    /\ ret = [is_valid |-> TRUE, errors |-> <<>>]

\* The 0-based indices of the batch's records that validate_record rejects
InvalidIndices(validators, records, entity) ==
    {i \in 0..(Len(records) - 1) : ~RecordResult(validators, records[i + 1], entity).is_valid}

\* C17 as stated: validity_percentage (in hundredths) is exactly
\* valid_records / max(total_records, 1) * 100
C17_ExactPercentage ==
    call.op = "validate_batch"
        => ret.validity_percentage * Max1(ret.total_records) = ret.valid_records * 100 * 100

\* C17: total_records is the batch length, valid_records counts the records
\* validate_record accepts, valid_records + invalid_records = total_records,
\* and validity_percentage is valid_records / max(total_records, 1) * 100
\* rounded to two decimals (at most half a hundredth away), 0 on an empty batch
C17_BatchCounts ==
    call.op = "validate_batch"
        => LET total == Len(call.records)
               invalid == Cardinality(InvalidIndices(schemas, call.records, call.entity))
               den == IF total > 1 THEN total ELSE 1
           IN  /\ ~Raised(ret)
               /\ ret.total_records = total
               /\ ret.invalid_records = invalid
               /\ ret.valid_records = total - invalid
               /\ ret.valid_records + ret.invalid_records = ret.total_records
               /\ 2 * abs(ret.validity_percentage * den - ret.valid_records * 10000) <= den
               /\ total = 0 => ret.validity_percentage = 0

\* Two records of three are valid: 66.67
C17_Witness ==
    /\ call.op = "validate_batch"
    /\ ret.total_records = 3
    /\ ret.valid_records = 2
    /\ ret.validity_percentage = 6667

\* The empty batch: 0
C17_WitnessEmpty ==
    /\ call.op = "validate_batch"
    /\ call.entity \in DOMAIN schemas
    /\ call.records = <<>>
    /\ ret.validity_percentage = 0

\* C18: the batch status is FAIL when some record is invalid and PASS
\* otherwise, never anything else, and the call returns
C18_BatchStatus ==
    call.op = "validate_batch"
        => /\ ~Raised(ret)
           /\ ret.status \in {"PASS", "FAIL"}
           /\ ret.status = IF InvalidIndices(schemas, call.records, call.entity) # {}
                           THEN "FAIL" ELSE "PASS"

\* A batch for a loaded schema with valid and invalid records alike: FAIL
C18_Witness ==
    /\ call.op = "validate_batch"
    /\ call.entity \in DOMAIN schemas
    /\ ret.valid_records > 0
    /\ ret.invalid_records > 0
    /\ ret.status = "FAIL"

\* C19: validate_batch for an entity without a loaded schema returns status
\* FAIL, whatever the batch
C19_NoSchemaBatchFails ==
    (call.op = "validate_batch" /\ call.entity \notin DOMAIN schemas)
        => (~Raised(ret) /\ ret.status = "FAIL")

\* C20: at most 100 detail entries are collected; error_samples is the first
\* min(10, invalid_records) of them: the n-th sample carries the index of the
\* n-th invalid record, that record's errors and its first min(5, fields)
\* items; invalid_records counts every invalid record, beyond both caps
C20_ErrorSamples ==
    call.op = "validate_batch"
        => LET bad == InvalidIndices(schemas, call.records, call.entity)
               collected == BatchLocals(schemas, call.records, call.entity).error_details
               samples == ret.error_samples
           IN  /\ ret.invalid_records = Cardinality(bad)
               /\ Len(collected) = IF Cardinality(bad) < 100 THEN Cardinality(bad) ELSE 100
               /\ Len(samples) = IF Cardinality(bad) < 10 THEN Cardinality(bad) ELSE 10
               /\ \A n \in 1..Len(samples) :
                     LET i == samples[n].record_index
                     IN  /\ samples[n] = collected[n]
                         /\ i \in bad
                         /\ Cardinality({j \in bad : j < i}) = n - 1
                         /\ samples[n].errors
                               = RecordResult(schemas, call.records[i + 1], call.entity).errors
                         /\ Len(samples[n].record_sample) <= 5
                         /\ samples[n].record_sample
                               = SubSeq(call.records[i + 1], 1,
                                        IF Len(call.records[i + 1]) < 5
                                        THEN Len(call.records[i + 1]) ELSE 5)

\* 101 invalid records of six fields: ten samples of five items each
C20_Witness ==
    /\ call.op = "validate_batch"
    /\ call.entity \in DOMAIN schemas
    /\ ret.invalid_records = 101
    /\ Len(ret.error_samples) = 10
    /\ Len(call.records[1]) = 6
    /\ Len(ret.error_samples[1].record_sample) = 5

\* Fewer than ten invalid records among valid ones: the samples skip the valid
C20_WitnessFew ==
    /\ call.op = "validate_batch"
    /\ ret.invalid_records \in 2..9
    /\ Len(ret.error_samples) = ret.invalid_records
    /\ ret.error_samples[1].record_index > 0
    /\ ret.error_samples[2].record_index > ret.error_samples[1].record_index + 1

----------------------------------------------------------------------------
(* The reporter's store *)

\* The puts that save_report made and the store accepted
SavedReports == {i \in 1..Len(puts) : puts[i].by.op = "save_report" /\ puts[i].ok}

\* The puts that save_bad_records made and the store accepted
Quarantined == {i \in 1..Len(puts) : puts[i].by.op = "save_bad_records" /\ puts[i].ok}

\* C21: two saved reports that differ (so that distinct generate_report calls
\* made them), for the same entity and process date and generated on the same
\* day, have different report_ids and were written under different keys
C21_DistinctReportIds ==
    \A i, j \in SavedReports :
        (/\ i < j
         /\ puts[i].body # puts[j].body
         /\ puts[i].body.entity = puts[j].body.entity
         /\ puts[i].body.process_date = puts[j].body.process_date
         /\ strftime_Ymd(puts[i].body.generated_at) = strftime_Ymd(puts[j].body.generated_at))
            => /\ puts[i].body.report_id # puts[j].body.report_id
               /\ puts[i].key # puts[j].key

\* C22: a report is saved under its entity and the day it was generated on,
\* whenever it is saved, so that the same report is always saved under one key
C22_GenerationDatePath ==
    /\ \A i \in SavedReports :
          /\ puts[i].key.entity = puts[i].body.entity
          /\ puts[i].key.day = strftime_Ymd(puts[i].body.generated_at)
    /\ \A i, j \in SavedReports : puts[i].body = puts[j].body => puts[i].key = puts[j].key

\* C23: the file name of a quarantine write carries the reason, and two
\* quarantine writes for the same entity and process date with different
\* reasons go to different keys, whenever they are made
C23_ReasonInLocation ==
    /\ \A i \in Quarantined :
          SubSeq(puts[i].key.name, 2, 1 + Len(puts[i].by.reason)) = puts[i].by.reason
    /\ \A i, j \in Quarantined :
          (/\ puts[i].by.entity = puts[j].by.entity
           /\ puts[i].by.process_date = puts[j].by.process_date
           /\ puts[i].by.reason # puts[j].by.reason)
              => puts[i].key # puts[j].key

\* Two quarantine writes an hour apart, the one reason a prefix of the other
C23_Witness ==
    /\ Len(puts) = 2
    /\ Quarantined = {1, 2}
    /\ puts[1].by.process_date = puts[2].by.process_date
    /\ puts[1].by.reason = <<"a", "_">>
    /\ puts[2].by.reason = <<"a">>
    /\ puts[1].by.now < puts[2].by.now
    /\ puts[1].ok /\ puts[2].ok

\* C24: a save makes exactly one put_object call; when the store rejects it the
\* save raises and returns no location, and when the store accepts it the save
\* returns the location of that put
C24_OneAttempt ==
    [][ /\ (call'.op \in {"save_report", "save_bad_records"} /\ call' # call)
            => puts' # puts
        /\ puts' # puts
            => /\ Len(puts') = Len(puts) + 1
               /\ SubSeq(puts', 1, Len(puts)) = puts
               /\ LET put == puts'[Len(puts')]
                  IN  /\ put.by = call'
                      /\ put.ok => ret' = [location |->
                                             [bucket |-> "c360-quality-logs-dev",
                                              key |-> put.key]]
                      /\ ~put.ok => (Raised(ret') /\ "location" \notin DOMAIN ret')
      ]_vars

\* A report was saved, then the store rejected a quarantine write: the save raised
C24_Witness ==
    /\ Len(puts) = 2
    /\ puts[1].by.op = "save_report" /\ puts[1].ok
    /\ puts[2].by.op = "save_bad_records" /\ ~puts[2].ok
    /\ call = puts[2].by
    /\ Raised(ret)

\* C30: two quarantine writes for the same entity and reason with different
\* process dates go to different keys
C30_PartitionedByProcessDate ==
    \A i, j \in Quarantined :
        (/\ puts[i].by.entity = puts[j].by.entity
         /\ puts[i].by.reason = puts[j].by.reason
         /\ puts[i].by.process_date # puts[j].by.process_date)
            => puts[i].key # puts[j].key

----------------------------------------------------------------------------
(* Instances, frames and projections *)

\* C25: a check on one instance appends its one result to that instance's list
\* and leaves the other instance's list and both threshold dicts as they were,
\* so each list holds the results of its own instance's checks, in their order
C25_NoSharedState ==
    [][ /\ thresholds' = thresholds
        /\ peer'.thresholds = peer.thresholds
        /\ "instance" \in DOMAIN call'
              => /\ results' = results
                 /\ Len(peer'.results) = Len(peer.results) + 1
                 /\ SubSeq(peer'.results, 1, Len(peer.results)) = peer.results
                 /\ peer'.results[Len(peer'.results)].check_name = CheckNameOf(call'.op)
                 /\ peer'.results[Len(peer'.results)].status = ret'.status
        /\ "instance" \notin DOMAIN call'
              => /\ peer'.results = peer.results
                 /\ Len(results') = Len(results) + 1
                 /\ SubSeq(results', 1, Len(results)) = results
                 /\ results'[Len(results')].check_name = CheckNameOf(call'.op)
                 /\ results'[Len(results')].status = ret'.status
      ]_vars

\* Two checks on each instance, interleaved; the instances have different
\* thresholds and their first results, of the same check, differ in status
C25_Witness ==
    /\ Len(results) = 2
    /\ Len(peer.results) = 2
    /\ thresholds # peer.thresholds
    /\ results[1].check_name = peer.results[1].check_name
    /\ results[1].status # peer.results[1].status
    /\ results[2].check_name # peer.results[2].check_name

\* C26: whatever calls came before, the validator's schema table is the one it
\* loaded, and the result of a call is the one that table gives for the call's
\* record(s) and entity alone
C26_ValidatorPure ==
    /\ schemas = SchemaValidator_init
    /\ call.op = "validate_record"
          => ret = RecordResult(SchemaValidator_init, call.record, call.entity)
    /\ call.op = "validate_batch"
          => ret = BatchSummary(call.entity, Len(call.records),
                                BatchLocals(SchemaValidator_init, call.records, call.entity))

\* A six-field record rejected for the unknown entity, in a run of many calls
C26_Witness ==
    /\ call.op = "validate_record"
    /\ call.entity \notin DOMAIN schemas
    /\ Len(call.record) = 6
    /\ ret.is_valid = FALSE

\* C27: the thresholds are the defaults 5 / 1 / 100 / 6 or the dict supplied at
\* construction, and no operation changes them
C27_ThresholdsFixed ==
    /\ [](thresholds \in {[null_percentage_max |-> 5, duplicate_percentage_max |-> 1,
                           min_row_count |-> 100, freshness_hours_max |-> 6]}
                         \cup RunThresholds)
    /\ [][thresholds' = thresholds]_vars

\* Two checks and a summary on a checker constructed without thresholds
C27_Witness ==
    /\ Len(results) = 2
    /\ call.op = "get_summary"
    /\ thresholds.min_row_count = 100
    /\ results[1].check_name = "null_check"
    /\ results[2].check_name = "row_count_check"

\* C28: after a check returned, the entry it appended holds the status it
\* returned and the check name of the operation, whatever keys its details carry
C28_StoredStatus ==
    (call.op \in CheckOps /\ ~Raised(ret))
        => /\ results # <<>>
           /\ results[Len(results)].status = ret.status
           /\ results[Len(results)].check_name = CheckNameOf(call.op)
           /\ results[Len(results)].status \in {"PASS", "WARN", "FAIL"}

\* The missing-column path of check_freshness: the details carry a status key
C28_Witness ==
    /\ call.op = "check_freshness"
    /\ call.timestamp_column \notin df.columns
    /\ "reason" \in DOMAIN results[Len(results)]
    /\ results[Len(results)].status = "FAIL"
    /\ ret.status = "FAIL"

\* C29: get_summary returns the projection of the list as it is, and a summary
\* the caller holds stays consistent: its totalChecks is the length of its
\* checks list and the sum of its three counts
C29_SummaryPure ==
    /\ call.op = "get_summary" => ret = Summary(results)
    /\ held # None
          => /\ held[1].totalChecks = Len(HeldChecks(held[1], results))
             /\ held[1].totalChecks = held[1].passed + held[1].warnings + held[1].failed

====
